---- MODULE Spec2Model ----
(***************************************************************************)
(* A model of the perplex_num crate: the value type Perplex<T>, its        *)
(* binary and unary operators, integer powers and the hyperbolic polar     *)
(* form.                                                                   *)
(*                                                                         *)
(* The field type T is modelled as exact numbers with the IEEE special     *)
(* values: a number is (n/d)*sqrt(r) with r squarefree, +infinity is 1/0,  *)
(* -infinity is -1/0 and NaN is 0/0.  Rounding is abstracted away; the     *)
(* special values obey the IEEE rules (x/0, inf-inf, 0*inf, NaN # NaN).    *)
(* A hyperbolic angle atanh(u) with 0 < |u| < 1 is kept symbolically.      *)
(***************************************************************************)
EXTENDS Integers, Sequences, FiniteSets, TLC

VARIABLES op, a, b, c, scalar, n, res, pol

vars == <<op, a, b, c, scalar, n, res, pol>>

(***************************************************************************)
(* Bounds of the model.                                                    *)
(***************************************************************************)
\* operand components t, x range over the integers -MaxCoord..MaxCoord
MaxCoord == 2
\* components of the third operand of the three-operand laws
MaxCoord3 == 1
\* unsigned exponents handed to powu and pow range over 0..MaxExp
MaxExp == 6
\* width in bits of the model's exponent types (u32 / i32 in the source)
ExpBits == 3
\* quotients of two logarithms are recognised as rational up to this
\* numerator and denominator
MaxMultiple == 3
\* the bases handed to log are 1..MaxBase and 1/2..1/MaxBase
MaxBase == 3

\* the circular angles reach from -MaxQuarter*pi/4 to MaxQuarter*pi/4
MaxQuarter == 4

(***************************************************************************)
(* The field type T.                                                       *)
(***************************************************************************)
\* a value outside the modelled numbers: it has no value, and TLC stops on it
Unrepresentable == CHOOSE v \in {} : TRUE

RECURSIVE Gcd(_, _)
Gcd(i, j) == IF j = 0 THEN i ELSE Gcd(j, i % j)

IntAbs(i) == IF i < 0 THEN 0 - i ELSE i

IntSgn(i) == IF i < 0 THEN 0 - 1 ELSE IF i = 0 THEN 0 ELSE 1

\* the largest k in lo..hi with k * k <= m, for lo * lo <= m
RECURSIVE ISqrtIn(_, _, _)
ISqrtIn(m, lo, hi) ==
    IF lo = hi THEN lo
    ELSE IF ((lo + hi + 1) \div 2) * ((lo + hi + 1) \div 2) <= m
    THEN ISqrtIn(m, (lo + hi + 1) \div 2, hi)
    ELSE ISqrtIn(m, lo, (lo + hi + 1) \div 2 - 1)

\* the integer square root of m >= 0 (46340 is the root of the largest
\* square TLC can hold)
ISqrt(m) == ISqrtIn(m, 0, IF m < 46340 THEN m ELSE 46340)

\* the square root of the largest square dividing m > 0
RECURSIVE SquarePart(_, _)
SquarePart(m, k) ==
    IF k * k > m THEN 1
    ELSE IF ISqrt(m) * ISqrt(m) = m THEN ISqrt(m)
    ELSE IF m % (k * k) = 0 THEN k * SquarePart(m \div (k * k), k)
    ELSE SquarePart(m, k + 1)

\* num/den in lowest terms, times sqrt(rad), for den > 0 and the greatest
\* common divisor g of num and den
Lowest(num, den, rad, g) ==
    [k |-> "alg", n |-> num \div g, d |-> den \div g, r |-> rad]

\* the infinity of the sign sgn, NaN for the sign 0
Special(sgn) == [k |-> "alg", n |-> sgn, d |-> 0, r |-> 1]

T_zero == [k |-> "alg", n |-> 0, d |-> 1, r |-> 1]

T_one == [k |-> "alg", n |-> 1, d |-> 1, r |-> 1]

T_infinity == Special(1)

T_neg_infinity == Special(0 - 1)

T_nan == Special(0)

\* (num/den)*sqrt(rad) in normal form, for den >= 0 and rad >= 1 squarefree
Alg(num, den, rad) ==
    IF den = 0 THEN Special(IntSgn(num))
    ELSE IF num = 0 THEN T_zero
    ELSE Lowest(num, den, rad, Gcd(IntAbs(num), den))

Q(num, den) == Alg(num, den, 1)

is_nan(v) == v.k = "alg" /\ v.d = 0 /\ v.n = 0

IsSpecial(v) == v.k = "alg" /\ v.d = 0

IsZero(v) == v.k = "alg" /\ v.d # 0 /\ v.n = 0

\* PartialEq of T: NaN equals nothing, itself included
T_eq(v, w) == ~is_nan(v) /\ ~is_nan(w) /\ v = w

\* v * w for algebraic v, w
AlgMul(v, w) ==
    Alg(v.n * w.n * Gcd(v.r, w.r), v.d * w.d,
        (v.r \div Gcd(v.r, w.r)) * (w.r \div Gcd(v.r, w.r)))

\* v / w for algebraic v, w
AlgDiv(v, w) ==
    Alg(v.n * w.d * Gcd(v.r, w.r) * (IF w.n < 0 THEN 0 - 1 ELSE 1),
        v.d * IntAbs(w.n) * w.r,
        (v.r \div Gcd(v.r, w.r)) * (w.r \div Gcd(v.r, w.r)))

\* v + w for finite algebraic v, w with one radicand
AlgAdd(v, w) ==
    IF v.n = 0 THEN w
    ELSE IF w.n = 0 THEN v
    ELSE IF v.r # w.r THEN Unrepresentable
    ELSE Alg(v.n * (w.d \div Gcd(v.d, w.d)) + w.n * (v.d \div Gcd(v.d, w.d)),
             (v.d \div Gcd(v.d, w.d)) * w.d, v.r)

\* the sign of v - w for algebraic v, w, neither NaN
AlgCmp(v, w) ==
    IF v.d = 0 \/ w.d = 0
    THEN IntSgn((IF v.d = 0 THEN 2 * v.n ELSE IntSgn(v.n))
                - (IF w.d = 0 THEN 2 * w.n ELSE IntSgn(w.n)))
    ELSE IF IntSgn(v.n) # IntSgn(w.n) THEN IntSgn(IntSgn(v.n) - IntSgn(w.n))
    ELSE IntSgn(v.n) * IntSgn(v.n * v.n * v.r * w.d * w.d
                              - w.n * w.n * w.r * v.d * v.d)

\* sqrt(v.n / v.d) for the square parts sn of v.n and sd of v.d
RootOf(v, sn, sd) ==
    Alg(sn, v.d \div sd, (v.n \div (sn * sn)) * (v.d \div (sd * sd)))

\* the square root of a non-negative rational v
AlgSqrt(v) ==
    IF v.d = 0 \/ v.n = 0 THEN v
    ELSE IF v.r # 1 THEN Unrepresentable
    ELSE RootOf(v, SquarePart(v.n, 2), SquarePart(v.d, 2))

\* a finite algebraic number or a sum of terms
Summable(v) == v.k = "sum" \/ (v.k = "alg" /\ v.d # 0)

\* the term (num/den) * sqrt(rad) * e^ex
Term(num, den, rad, ex) == [n |-> num, d |-> den, r |-> rad, e |-> ex]

\* the coefficient of a term, and the term v * e^ex of a coefficient v
AsAlg(t) == [k |-> "alg", n |-> t.n, d |-> t.d, r |-> t.r]

AsTerm(v, ex) == Term(v.n, v.d, v.r, ex)

\* the terms of a finite algebraic number or of a sum
Terms(v) ==
    IF v.k = "sum" THEN v.terms
    ELSE IF v.n = 0 THEN {}
    ELSE {AsTerm(v, 0)}

\* the number with the terms S, whose roots and exponents are distinct
FromTerms(S) ==
    IF S = {} THEN T_zero
    ELSE IF Cardinality(S) = 1 /\ \A t \in S : t.e = 0
    THEN AsAlg(CHOOSE t \in S : TRUE)
    ELSE [k |-> "sum", terms |-> S]

\* like terms: one root and one exponent
Like(t, u) == t.r = u.r /\ t.e = u.e

\* t + u for like terms (the coefficient 0 when they cancel)
TermAdd(t, u) == AsTerm(AlgAdd(AsAlg(t), AsAlg(u)), t.e)

\* the terms of S and of W, like terms collected
AddTerms(S, W) ==
    {t \in S : \A u \in W : ~Like(t, u)}
        \cup {u \in W : \A t \in S : ~Like(t, u)}
        \cup {x \in {TermAdd(p[1], p[2]) :
                       p \in {q \in S \X W : Like(q[1], q[2])}} : x.n # 0}

TermMul(t, u) == AsTerm(AlgMul(AsAlg(t), AsAlg(u)), t.e + u.e)

\* 1 / t
TermInv(t) == AsTerm(AlgDiv(T_one, AsAlg(t)), 0 - t.e)

\* the terms of S times the term f
TermsTimes(S, f) == {TermMul(t, f) : t \in S}

RECURSIVE MulTerms(_, _)
MulTerms(S, W) ==
    IF S = {} THEN {}
    ELSE AddTerms(MulTerms(S \ {CHOOSE t \in S : TRUE}, W),
                  TermsTimes(W, CHOOSE t \in S : TRUE))

\* the sign of |t| - |u| for the coefficients of two terms
TermCmpAbs(t, u) ==
    IntSgn(t.n * t.n * t.r * u.d * u.d - u.n * u.n * u.r * t.d * t.d)

\* the sign of p*e^i - m*e^j for p > m (larger = 1), p = m (0) or p < m
\* (-1) and i > j (higher = 1), i = j (0) or i < j (-1), when it is decided
SgnPair(larger, higher) ==
    IF higher = 0 THEN larger
    ELSE IF larger = 0 \/ larger = higher THEN higher
    ELSE Unrepresentable

\* the sign of a sum of terms: of one sign, or one positive and one negative
\* term of which one dominates
SumSgn(S) ==
    IF S = {} THEN 0
    ELSE IF \A t \in S : t.n > 0 THEN 1
    ELSE IF \A t \in S : t.n < 0 THEN 0 - 1
    ELSE IF Cardinality(S) # 2 THEN Unrepresentable
    ELSE SgnPair(TermCmpAbs(CHOOSE t \in S : t.n > 0,
                            CHOOSE t \in S : t.n < 0),
                 IntSgn((CHOOSE t \in S : t.n > 0).e
                        - (CHOOSE t \in S : t.n < 0).e))

\* the sign of a value that is not NaN
Sgn(v) ==
    IF v.k = "sum" THEN SumSgn(v.terms)
    ELSE IF v.k = "quot" THEN IntSgn(v.p.n)
    ELSE IntSgn(v.n)

\* negation and absolute value (atanh and tanh are odd, so they also act on
\* an angle)
T_neg(v) ==
    IF v.k = "sum"
    THEN [v EXCEPT !.terms = {[t EXCEPT !.n = 0 - t.n] : t \in v.terms}]
    ELSE IF v.k = "quot" THEN [v EXCEPT !.p.n = 0 - v.p.n]
    ELSE [v EXCEPT !.n = 0 - v.n]

T_abs(v) ==
    IF v.k \in {"sum", "quot"} THEN (IF Sgn(v) < 0 THEN T_neg(v) ELSE v)
    ELSE [v EXCEPT !.n = IntAbs(v.n)]

\* the argument u of an angle atanh(u) or of a value tanh(u)
ArgOf(v) == [v EXCEPT !.k = "alg"]

\* the angle atanh(u) for an algebraic u with |u| < 1
Angle(u) == IF u.n = 0 THEN u ELSE [u EXCEPT !.k = "atanh"]

\* tanh(p + q) = (u + v) / (1 + u * v) for u = tanh p and v = tanh q
TanhSum(u, v) ==
    IF u.n = 0 THEN v
    ELSE IF v.n = 0 THEN u
    ELSE IF u.r # v.r THEN Unrepresentable
    ELSE Alg(u.n * v.d + v.n * u.d, u.d * v.d + u.n * v.n * u.r, u.r)

\* tanh(k * atanh(u)) for k >= 1
RECURSIVE TanhMultiple(_, _)
TanhMultiple(k, u) ==
    IF k = 1 THEN u ELSE TanhSum(TanhMultiple(k - 1, u), u)

\* v * theta for a finite algebraic v # 0 and an angle theta = atanh(u):
\* the angle k * theta for an integer v = k
AngleMul(v, theta) ==
    IF v.d # 1 \/ v.r # 1 THEN Unrepresentable
    ELSE Angle(TanhMultiple(IntAbs(v.n),
                            [ArgOf(theta) EXCEPT !.n = IntSgn(v.n) * theta.n]))

\* the sum of two angles
AngleAdd(p, q) == Angle(TanhSum(ArgOf(p), ArgOf(q)))

\* tanh(p/2) = u / (1 + sqrt(1 - u*u)) for u = tanh p = (n/d)*sqrt(r) and
\* the integer square root s of d*d - n*n*r
TanhHalf(u, s) ==
    IF s * s # u.d * u.d - u.n * u.n * u.r THEN Unrepresentable
    ELSE Alg(u.n, u.d + s, u.r)

\* the half of an angle
AngleHalf(p) ==
    Angle(TanhHalf(ArgOf(p), ISqrt(p.d * p.d - p.n * p.n * p.r)))

\* e^(2 * atanh|u|) = (1 + |u|) / (1 - |u|) for a rational u: the numerator
\* and the denominator
ExpTwiceNum(p) == p.d + IntAbs(p.n)

ExpTwiceDen(p) == p.d - IntAbs(p.n)

\* the pairs <<j, k>> of multiples up to MaxMultiple with j * |p| = k * |q|
Multiples(p, q) ==
    {jk \in (1..MaxMultiple) \X (1..MaxMultiple) :
       ExpTwiceNum(p) ^ jk[1] * ExpTwiceDen(q) ^ jk[2]
       = ExpTwiceNum(q) ^ jk[2] * ExpTwiceDen(p) ^ jk[1]}

\* p / q of the sign sgn for two angles with the multiples JK: the rational
\* k/j of a pair, and the symbolic quotient when there is none
RatioOf(p, q, sgn, JK) ==
    IF JK # {}
    THEN Q(sgn * (CHOOSE jk \in JK : TRUE)[2], (CHOOSE jk \in JK : TRUE)[1])
    ELSE [k |-> "quot", p |-> [p EXCEPT !.n = sgn * IntAbs(p.n)],
          q |-> [q EXCEPT !.n = IntAbs(q.n)]]

\* p / q for two angles
AngleRatio(p, q) ==
    IF p.r # 1 \/ q.r # 1 THEN Unrepresentable
    ELSE RatioOf(p, q, IntSgn(p.n) * IntSgn(q.n), Multiples(p, q))

\* v * x for a finite algebraic v and x an angle, a tanh or a quotient
Scale(v, x) ==
    IF v.n = 0 THEN v
    ELSE IF v = T_one THEN x
    ELSE IF T_neg(v) = T_one THEN T_neg(x)
    ELSE IF x.k = "atanh" THEN AngleMul(v, x)
    ELSE Unrepresentable

T_mul(v, w) ==
    IF v.k = "alg" /\ w.k = "alg" THEN AlgMul(v, w)
    ELSE IF IsSpecial(v) \/ IsSpecial(w) THEN Special(Sgn(v) * Sgn(w))
    ELSE IF Summable(v) /\ Summable(w)
    THEN FromTerms(MulTerms(Terms(v), Terms(w)))
    ELSE IF v.k = "alg" \/ w.k = "alg"
    THEN Scale(IF v.k = "alg" THEN v ELSE w, IF v.k = "alg" THEN w ELSE v)
    ELSE Unrepresentable

\* S / W for the terms f * W
MultipleOf(S, W, f) ==
    IF S = TermsTimes(W, f) THEN FromTerms({f}) ELSE Unrepresentable

\* S / W for a term w1 of the highest and a term w2 of the lowest exponent
\* of W: tanh((p - q)/2) for S = c*(e^p - e^q) and W = c*(e^p + e^q), and
\* the factor for S a multiple of W
SumDivBy(S, W, w1, w2) ==
    LET v1 == CHOOSE t \in S : Like(t, w1)
        v2 == CHOOSE t \in S : Like(t, w2)
    IN  IF \A t \in S : ~Like(t, w1) THEN Unrepresentable
        ELSE IF /\ Cardinality(W) = 2
                /\ Cardinality(S) = 2
                /\ \E t \in S : Like(t, w2)
                /\ w1.e > w2.e
                /\ w1.r = w2.r
                /\ w1.n = w2.n /\ w1.d = w2.d
                /\ v1.n = 0 - v2.n /\ v1.d = v2.d
                /\ IntAbs(v1.n) = IntAbs(w1.n) /\ v1.d = w1.d
        THEN [Q(IntSgn(v1.n) * IntSgn(w1.n) * (w1.e - w2.e), 2)
                EXCEPT !.k = "tanh"]
        ELSE MultipleOf(S, W, TermMul(v1, TermInv(w1)))

\* v / w for two sums of terms (or a sum and a finite algebraic number),
\* w not zero: by the reciprocal of a w of one term
SumDiv(v, w) ==
    IF Cardinality(Terms(w)) = 1
    THEN FromTerms(TermsTimes(Terms(v), TermInv(CHOOSE u \in Terms(w) : TRUE)))
    ELSE SumDivBy(Terms(v), Terms(w),
                  CHOOSE u \in Terms(w) : \A y \in Terms(w) : y.e <= u.e,
                  CHOOSE u \in Terms(w) : \A y \in Terms(w) : y.e >= u.e)

T_div(v, w) ==
    IF v.k = "alg" /\ w.k = "alg" THEN AlgDiv(v, w)
    ELSE IF is_nan(v) \/ is_nan(w) THEN T_nan
    ELSE IF IsSpecial(w) THEN (IF IsSpecial(v) THEN T_nan ELSE T_zero)
    ELSE IF IsSpecial(v) \/ IsZero(w)
    THEN Special(Sgn(v) * (IF Sgn(w) < 0 THEN 0 - 1 ELSE 1))
    ELSE IF IsZero(v) THEN T_zero
    ELSE IF Summable(v) /\ Summable(w) THEN SumDiv(v, w)
    ELSE IF v.k = "atanh" /\ w.k = "atanh" THEN AngleRatio(v, w)
    ELSE IF w = T_one THEN v
    ELSE IF T_neg(w) = T_one THEN T_neg(v)
    ELSE IF v.k = "atanh" /\ w = Q(2, 1) THEN AngleHalf(v)
    ELSE Unrepresentable

T_add(v, w) ==
    IF IsSpecial(v) /\ IsSpecial(w) THEN (IF v.n = w.n THEN v ELSE T_nan)
    ELSE IF IsSpecial(v) THEN v
    ELSE IF IsSpecial(w) THEN w
    ELSE IF IsZero(v) THEN w
    ELSE IF IsZero(w) THEN v
    ELSE IF Summable(v) /\ Summable(w)
    THEN FromTerms(AddTerms(Terms(v), Terms(w)))
    ELSE IF v.k = "atanh" /\ w.k = "atanh" THEN AngleAdd(v, w)
    ELSE Unrepresentable

T_sub(v, w) == T_add(v, T_neg(w))

\* the sign of v - w for comparable v, w, neither NaN
Cmp(v, w) ==
    IF v.k = w.k /\ v.k \in {"alg", "atanh", "tanh"}
    THEN AlgCmp(ArgOf(v), ArgOf(w))
    ELSE IF IsSpecial(v) THEN v.n
    ELSE IF IsSpecial(w) THEN 0 - w.n
    ELSE IF Summable(v) /\ Summable(w)
    THEN SumSgn(AddTerms(Terms(v), Terms(T_neg(w))))
    ELSE IF IsZero(w) THEN Sgn(v)
    ELSE IF IsZero(v) THEN 0 - Sgn(w)
    ELSE Unrepresentable

T_lt(v, w) == ~is_nan(v) /\ ~is_nan(w) /\ Cmp(v, w) < 0

T_gt(v, w) == T_lt(w, v)

T_ge(v, w) == ~is_nan(v) /\ ~is_nan(w) /\ Cmp(v, w) >= 0

T_sqrt(v) ==
    IF v.k # "alg" THEN Unrepresentable
    ELSE IF is_nan(v) \/ v.n < 0 THEN T_nan
    ELSE AlgSqrt(v)

\* T::from(i) of an i32
T_from(i) == Q(i, 1)

\* v * v * ... * v with k >= 0 factors, for an algebraic v
RECURSIVE T_powu(_, _)
T_powu(v, k) == IF k = 0 THEN T_one ELSE AlgMul(T_powu(v, k - 1), v)

\* Float::powi: v^i, the reciprocal of v^|i| for i < 0
T_powi(v, i) ==
    IF v.k # "alg" THEN Unrepresentable
    ELSE IF i < 0 THEN AlgDiv(T_one, T_powu(v, 0 - i))
    ELSE T_powu(v, i)

\* atanh(u) for an algebraic u, not NaN, and the sign m of |u| - 1
AtanhOf(u, m) ==
    IF m > 0 THEN T_nan
    ELSE IF m = 0 THEN Special(IntSgn(u.n))
    ELSE Angle(u)

\* atanh(u): 0 at 0, +-infinity at +-1, NaN outside [-1, 1], symbolic
\* inside; atanh(tanh(q)) = q
T_atanh(u) ==
    IF u.k = "tanh" THEN ArgOf(u)
    ELSE IF u.k # "alg" THEN Unrepresentable
    ELSE IF is_nan(u) THEN T_nan
    ELSE AtanhOf(u, AlgCmp(T_abs(u), T_one))

\* 1 - u*u for an algebraic u
OneMinusSquare(u) == AlgAdd(T_one, T_neg(AlgMul(u, u)))

\* cosh(atanh(u)) = 1 / sqrt(1 - u*u); cosh(q) = (e^q + e^-q) / 2
T_cosh(v) ==
    IF v.k = "atanh"
    THEN AlgDiv(T_one, AlgSqrt(OneMinusSquare(ArgOf(v))))
    ELSE IF v.k # "alg" THEN Unrepresentable
    ELSE IF is_nan(v) THEN T_nan
    ELSE IF v.d = 0 THEN T_infinity
    ELSE IF v.n = 0 THEN T_one
    ELSE IF v.d # 1 \/ v.r # 1 THEN Unrepresentable
    ELSE FromTerms({Term(1, 2, 1, v.n), Term(1, 2, 1, 0 - v.n)})

\* sinh(atanh(u)) = u / sqrt(1 - u*u); sinh(q) = (e^q - e^-q) / 2
T_sinh(v) ==
    IF v.k = "atanh"
    THEN AlgDiv(ArgOf(v), AlgSqrt(OneMinusSquare(ArgOf(v))))
    ELSE IF v.k # "alg" THEN Unrepresentable
    ELSE IF is_nan(v) THEN T_nan
    ELSE IF v.d = 0 THEN v
    ELSE IF v.n = 0 THEN T_zero
    ELSE IF v.d # 1 \/ v.r # 1 THEN Unrepresentable
    ELSE FromTerms({Term(1, 2, 1, v.n), Term(0 - 1, 2, 1, 0 - v.n)})

\* e^v: e^q is kept as a term for an integer q, and e^atanh(u) is
\* sqrt((1 + u) / (1 - u))
T_exp(v) ==
    IF v.k = "atanh"
    THEN AlgSqrt(AlgDiv(AlgAdd(T_one, ArgOf(v)),
                        AlgAdd(T_one, T_neg(ArgOf(v)))))
    ELSE IF v.k # "alg" THEN Unrepresentable
    ELSE IF is_nan(v) THEN T_nan
    ELSE IF v.d = 0 THEN (IF v.n > 0 THEN T_infinity ELSE T_zero)
    ELSE IF v.n = 0 THEN T_one
    ELSE IF v.d # 1 \/ v.r # 1 THEN Unrepresentable
    ELSE FromTerms({Term(1, 1, 1, v.n)})

\* ln(v): NaN below 0, -infinity at 0, 0 at 1; ln(e^q) = q; for an
\* algebraic v > 0 the angle with tanh(ln v) = (v*v - 1) / (v*v + 1)
T_ln(v) ==
    IF v.k = "sum"
    THEN (IF Cardinality(v.terms) = 1
             /\ \A t \in v.terms : t.n = 1 /\ t.d = 1 /\ t.r = 1
          THEN Q((CHOOSE t \in v.terms : TRUE).e, 1)
          ELSE Unrepresentable)
    ELSE IF v.k # "alg" THEN Unrepresentable
    ELSE IF is_nan(v) \/ v.n < 0 THEN T_nan
    ELSE IF v.d = 0 THEN T_infinity
    ELSE IF v.n = 0 THEN T_neg_infinity
    ELSE Angle(Alg(v.n * v.n * v.r - v.d * v.d, v.n * v.n * v.r + v.d * v.d,
                   1))

(***************************************************************************)
(* Perplex<T> and Option<Perplex<T>>.                                      *)
(***************************************************************************)
new(t, x) == [t |-> t, x |-> x]

None == [some |-> FALSE]

Some(z) == [some |-> TRUE, val |-> z]

\* derived PartialEq of Perplex
perplex_eq(z, w) == T_eq(z.t, w.t) /\ T_eq(z.x, w.x)

default == new(T_one, T_zero)

zero == new(T_zero, T_zero)

one == new(T_one, T_zero)

h == new(T_zero, T_one)

\* the Euclidean form t*t + x*x in place of t*t - x*x
squared_distance_euclidean(z) == T_add(T_mul(z.t, z.t), T_mul(z.x, z.x))

squared_distance(z) == T_sub(T_mul(z.t, z.t), T_mul(z.x, z.x))

is_time_like(z) == T_gt(squared_distance(z), T_zero)

\* is_space_like with `<=` for `<`
is_space_like_or_light(z) == T_ge(T_zero, squared_distance(z))

is_space_like(z) == T_lt(squared_distance(z), T_zero)

\* light-like on the diagonal x = t only
is_light_like_main_diagonal(z) == T_eq(z.t, z.x)

is_light_like(z) == T_eq(squared_distance(z), T_zero)

conj(z) == new(z.t, T_neg(z.x))

\* try_inverse without the negation of x: z / D(z) for conj(z) / D(z)
try_inverse_no_conj(z) ==
    LET sd == squared_distance(z)
    IN  IF T_eq(sd, T_zero) THEN None
        ELSE Some(new(T_div(z.t, sd), T_div(z.x, sd)))

try_inverse(z) ==
    LET sd == squared_distance(z)
    IN  IF T_eq(sd, T_zero) THEN None
        ELSE Some(new(T_div(z.t, sd), T_div(T_neg(z.x), sd)))

l1_norm(z) == T_add(T_abs(z.t), T_abs(z.x))

l2_norm(z) == T_sqrt(T_add(T_mul(z.t, z.t), T_mul(z.x, z.x)))

\* T::max: the larger operand, the other one if one is NaN
T_max(v, w) ==
    IF is_nan(v) THEN w
    ELSE IF is_nan(w) THEN v
    ELSE IF T_lt(v, w) THEN w ELSE v

max_norm(z) == T_max(T_abs(z.t), T_abs(z.x))

\* the modulus without the absolute value: sqrt(D(z))
modulus_no_abs(z) == T_sqrt(squared_distance(z))

modulus(z) == T_sqrt(T_abs(squared_distance(z)))

norm(z) == modulus(z)

magnitude(z) == modulus(z)

(***************************************************************************)
(* Binary operators between two Perplex numbers.                           *)
(***************************************************************************)
add(z, rhs) == new(T_add(z.t, rhs.t), T_add(z.x, rhs.x))

sub(z, rhs) == new(T_sub(z.t, rhs.t), T_sub(z.x, rhs.x))

\* mul with the rule of the complex numbers: t1*t2 - x1*x2
mul_elliptic(z, rhs) ==
    new(T_sub(T_mul(z.t, rhs.t), T_mul(z.x, rhs.x)),
        T_add(T_mul(rhs.t, z.x), T_mul(z.t, rhs.x)))

\* mul with rhs.t for rhs.x in the last product
mul_wrong_factor(z, rhs) ==
    new(T_add(T_mul(z.t, rhs.t), T_mul(z.x, rhs.x)),
        T_add(T_mul(rhs.t, z.x), T_mul(z.t, rhs.t)))

mul(z, rhs) ==
    new(T_add(T_mul(z.t, rhs.t), T_mul(z.x, rhs.x)),
        T_add(T_mul(rhs.t, z.x), T_mul(z.t, rhs.x)))

\* div that takes only the line x = t for light-like
div_one_diagonal(z, rhs) ==
    LET t2 == rhs.t
        x2 == rhs.x
        norm_squared_2 == T_sub(T_mul(t2, t2), T_mul(x2, x2))
    IN  IF T_eq(t2, x2) THEN None
        ELSE LET t1 == z.t
                 x1 == z.x
                 t_new == T_div(T_sub(T_mul(t1, t2), T_mul(x1, x2)), norm_squared_2)
                 x_new == T_div(T_sub(T_mul(t2, x1), T_mul(t1, x2)), norm_squared_2)
             IN  Some(new(t_new, x_new))

\* div with the operands of the subtraction in x_new exchanged
div_x_sign(z, rhs) ==
    LET t2 == rhs.t
        x2 == rhs.x
        norm_squared_2 == T_sub(T_mul(t2, t2), T_mul(x2, x2))
    IN  IF T_eq(norm_squared_2, T_zero) THEN None
        ELSE LET t1 == z.t
                 x1 == z.x
                 t_new == T_div(T_sub(T_mul(t1, t2), T_mul(x1, x2)), norm_squared_2)
                 x_new == T_div(T_sub(T_mul(t1, x2), T_mul(t2, x1)), norm_squared_2)
             IN  Some(new(t_new, x_new))

div(z, rhs) ==
    LET t2 == rhs.t
        x2 == rhs.x
        norm_squared_2 == T_sub(T_mul(t2, t2), T_mul(x2, x2))
    IN  IF T_eq(norm_squared_2, T_zero) THEN None
        ELSE LET t1 == z.t
                 x1 == z.x
                 t_new == T_div(T_sub(T_mul(t1, t2), T_mul(x1, x2)), norm_squared_2)
                 x_new == T_div(T_sub(T_mul(t2, x1), T_mul(t1, x2)), norm_squared_2)
             IN  Some(new(t_new, x_new))

\* self after `self /= rhs`: the assignments of the body, one by one
div_assign(z, rhs) ==
    LET t2 == rhs.t
        x2 == rhs.x
        norm_squared_2 == T_sub(T_mul(t2, t2), T_mul(x2, x2))
        t == z.t
        self1 == [z EXCEPT !.t = T_mul(@, t2)]
        self2 == [self1 EXCEPT !.t = T_sub(@, T_mul(self1.x, x2))]
        self3 == [self2 EXCEPT !.t = T_div(@, norm_squared_2)]
        self4 == [self3 EXCEPT !.x = T_mul(@, t2)]
        self5 == [self4 EXCEPT !.x = T_sub(@, T_mul(t, x2))]
    IN  [self5 EXCEPT !.x = T_div(@, norm_squared_2)]

\* self after `self += rhs`
add_assign(z, rhs) ==
    LET self1 == [z EXCEPT !.t = T_add(@, rhs.t)]
    IN  [self1 EXCEPT !.x = T_add(@, rhs.x)]

\* self after `self -= rhs`
sub_assign(z, rhs) ==
    LET self1 == [z EXCEPT !.t = T_sub(@, rhs.t)]
    IN  [self1 EXCEPT !.x = T_sub(@, rhs.x)]

\* mul_assign without the copy `let t = self.t`: the last statement reads
\* the t component that was already updated
mul_assign_no_copy(z, rhs) ==
    LET self1 == [z EXCEPT !.t = T_mul(@, rhs.t)]
        self2 == [self1 EXCEPT !.t = T_add(@, T_mul(self1.x, rhs.x))]
        self3 == [self2 EXCEPT !.x = T_mul(@, rhs.t)]
    IN  [self3 EXCEPT !.x = T_add(@, T_mul(self3.t, rhs.x))]

\* self after `self *= rhs`: the assignments of the body, one by one
mul_assign(z, rhs) ==
    LET t == z.t
        self1 == [z EXCEPT !.t = T_mul(@, rhs.t)]
        self2 == [self1 EXCEPT !.t = T_add(@, T_mul(self1.x, rhs.x))]
        self3 == [self2 EXCEPT !.x = T_mul(@, rhs.t)]
    IN  [self3 EXCEPT !.x = T_add(@, T_mul(t, rhs.x))]

(***************************************************************************)
(* Binary operators between a Perplex number and a scalar of T.            *)
(***************************************************************************)
add_T(z, other) == new(T_add(z.t, other), z.x)

add_assign_T(z, rhs) == [z EXCEPT !.t = T_add(z.t, rhs)]

sub_T(z, rhs) == new(T_sub(z.t, rhs), z.x)

sub_assign_T(z, rhs) == [z EXCEPT !.t = T_sub(z.t, rhs)]

\* mul by a scalar that scales the t component only
mul_T_only_t(z, rhs) == new(T_mul(z.t, rhs), z.x)

mul_T(z, rhs) == new(T_mul(z.t, rhs), T_mul(z.x, rhs))

mul_assign_T(z, rhs) ==
    LET self1 == [z EXCEPT !.t = T_mul(@, rhs)]
    IN  [self1 EXCEPT !.x = T_mul(@, rhs)]

div_T(z, rhs) == new(T_div(z.t, rhs), T_div(z.x, rhs))

div_assign_T(z, rhs) ==
    LET self1 == [z EXCEPT !.t = T_div(@, rhs)]
    IN  [self1 EXCEPT !.x = T_div(@, rhs)]

(***************************************************************************)
(* Ternary operators between three Perplex numbers.                        *)
(***************************************************************************)
mul_add(z, other, addend) ==
    LET t == T_add(T_add(T_mul(z.t, other.t), T_mul(z.x, other.x)), addend.t)
        x == T_add(T_add(T_mul(other.t, z.x), T_mul(z.t, other.x)), addend.x)
    IN  new(t, x)

\* self after `self.mul_add_assign(other, add)`
mul_add_assign(z, other, addend) ==
    LET t == z.t
        self1 == [z EXCEPT !.t = T_mul(@, other.t)]
        self2 == [self1 EXCEPT
                    !.t = T_add(@, T_add(T_mul(self1.x, other.x), addend.t))]
        self3 == [self2 EXCEPT !.x = T_mul(@, other.t)]
    IN  [self3 EXCEPT !.x = T_add(@, T_add(T_mul(t, other.x), addend.x))]

(***************************************************************************)
(* Unary operators and integer powers.                                     *)
(***************************************************************************)
neg(z) == new(T_neg(z.t), T_neg(z.x))

inv(z) == try_inverse(z)

\* the two's-complement value range of the model's i32 and u32
TwoToBits == 2 ^ ExpBits

i32_MIN == 0 - 2 ^ (ExpBits - 1)

i32_MAX == 2 ^ (ExpBits - 1) - 1

\* a negation that saturates at i32::MAX instead of wrapping
saturating_neg(exp) == IF exp = i32_MIN THEN i32_MAX ELSE 0 - exp

\* i32::wrapping_neg: -exp reduced into the signed range
wrapping_neg(exp) ==
    LET m == (0 - exp) % TwoToBits
    IN  IF m > i32_MAX THEN m - TwoToBits ELSE m

\* `exp as u32`: the same bit pattern read as unsigned
as_u32(exp) == exp % TwoToBits

\* `exp as i32`: the same bit pattern read as signed
as_i32(exp) == IF exp > i32_MAX THEN exp - TwoToBits ELSE exp

\* i32 `%`: the remainder has the sign of the dividend
i32_rem(i, m) == IF i < 0 THEN 0 - ((0 - i) % m) ELSE i % m

\* i - j in release builds: reduced into the signed range
i32_wrapping_sub(i, j) ==
    LET m == (i - j) % TwoToBits
    IN  IF m > i32_MAX THEN m - TwoToBits ELSE m

\* the loop with the parity of exp tested after the halving
RECURSIVE pow_loop_late_test(_, _, _)
pow_loop_late_test(result, base, exp) ==
    IF exp > 1
    THEN pow_loop_late_test(IF (exp \div 2) % 2 = 1 THEN mul(result, base)
                            ELSE result,
                            mul(base, base), exp \div 2)
    ELSE mul(result, base)

\* the `while exp > 1` loop of Pow<u32>::pow and the final `result * base`
RECURSIVE pow_loop(_, _, _)
pow_loop(result, base, exp) ==
    IF exp > 1
    THEN pow_loop(IF exp % 2 = 1 THEN mul(result, base) ELSE result,
                  mul(base, base), exp \div 2)
    ELSE mul(result, base)

pow_u32(self, exp) ==
    LET result == one
    IN  IF exp = 0 THEN result ELSE pow_loop(result, self, exp)

pow_i32(self, exp) ==
    IF exp < 0
    THEN LET inverse == inv(self)
         IN  IF inverse.some
             THEN Some(pow_u32(inverse.val, as_u32(wrapping_neg(exp))))
             ELSE None
    ELSE Some(pow_u32(self, as_u32(exp)))

\* The same call, statement by statement.  The frame of a running
\* Pow<u32>::pow holds result, base and exp; iterations counts the passes
\* through the loop body and multiplications the products of Perplex numbers.
pow_enter(self, exp) ==
    [result |-> one, base |-> self, exp |-> exp,
     iterations |-> 0, multiplications |-> 0]

\* a loop body that decrements exp instead of halving it
pow_loop_body_decrement(f) ==
    [result |-> IF f.exp % 2 = 1 THEN mul(f.result, f.base) ELSE f.result,
     base |-> mul(f.base, f.base),
     exp |-> f.exp - 1,
     iterations |-> f.iterations + 1,
     multiplications |-> f.multiplications + (IF f.exp % 2 = 1 THEN 2 ELSE 1)]

\* one pass through the body of `while exp > 1`
pow_loop_body(f) ==
    [result |-> IF f.exp % 2 = 1 THEN mul(f.result, f.base) ELSE f.result,
     base |-> mul(f.base, f.base),
     exp |-> f.exp \div 2,
     iterations |-> f.iterations + 1,
     multiplications |-> f.multiplications + (IF f.exp % 2 = 1 THEN 2 ELSE 1)]

\* the final `result * base`
pow_return(f) ==
    [f EXCEPT !.result = mul(@, f.base), !.multiplications = @ + 1]

powu(self, exp) == pow_u32(self, exp)

powi(self, exp) == pow_i32(self, exp)

(***************************************************************************)
(* The hyperbolic polar form.                                              *)
(***************************************************************************)
Right == [tag |-> "Right"]

Up == [tag |-> "Up"]

Left == [tag |-> "Left"]

Down == [tag |-> "Down"]

Diagonal(t) == [tag |-> "Diagonal", t |-> t]

\* the sector with Diagonal carrying the x component
HyperbolicSector_from_diagonal_x(z) ==
    LET t == z.t
        x == z.x
        t_abs == T_abs(t)
        x_abs == T_abs(x)
    IN  IF T_eq(t_abs, x_abs) THEN Diagonal(x)
        ELSE IF T_gt(t_abs, x_abs)
             THEN (IF T_gt(t, T_zero) THEN Right ELSE Left)
        ELSE IF T_gt(x, T_zero) THEN Up
        ELSE Down

HyperbolicSector_from(z) ==
    LET t == z.t
        x == z.x
        t_abs == T_abs(t)
        x_abs == T_abs(x)
    IN  IF T_eq(t_abs, x_abs) THEN Diagonal(t)
        ELSE IF T_gt(t_abs, x_abs)
             THEN (IF T_gt(t, T_zero) THEN Right ELSE Left)
        ELSE IF T_gt(x, T_zero) THEN Up
        ELSE Down

\* arg with the quotient t/x in both branches
arg_one_quotient(z) ==
    LET t == z.t
        x == z.x
        t_abs == T_abs(t)
        x_abs == T_abs(x)
    IN  IF T_eq(t_abs, x_abs)
        THEN (IF T_eq(t, x) THEN T_infinity ELSE T_neg_infinity)
        ELSE IF T_gt(t_abs, x_abs) THEN T_atanh(T_div(t, x))
        ELSE T_atanh(T_div(t, x))

arg(z) ==
    LET t == z.t
        x == z.x
        t_abs == T_abs(t)
        x_abs == T_abs(x)
    IN  IF T_eq(t_abs, x_abs)
        THEN (IF T_eq(t, x) THEN T_infinity ELSE T_neg_infinity)
        ELSE IF T_gt(t_abs, x_abs) THEN T_atanh(T_div(x, t))
        ELSE T_atanh(T_div(t, x))

HyperbolicPolar_default == [rho |-> T_one, theta |-> T_zero, sector |-> Right]

HyperbolicPolar_from(z) ==
    [rho |-> norm(z), theta |-> arg(z), sector |-> HyperbolicSector_from(z)]

\* Perplex_from with the Left sector computed as the Right sector
Perplex_from_left_as_right(polar) ==
    LET rho == polar.rho
        theta == polar.theta
        sector == polar.sector
    IN  CASE sector.tag \in {"Right", "Left"} ->
                 new(T_mul(rho, T_cosh(theta)), T_mul(rho, T_sinh(theta)))
          [] sector.tag = "Up" ->
                 new(T_mul(rho, T_sinh(theta)), T_mul(rho, T_cosh(theta)))
          [] sector.tag = "Down" ->
                 new(T_mul(T_neg(rho), T_sinh(theta)),
                     T_mul(T_neg(rho), T_cosh(theta)))
          [] sector.tag = "Diagonal" ->
                 IF T_eq(theta, T_infinity) THEN new(sector.t, sector.t)
                 ELSE new(sector.t, T_neg(sector.t))

Perplex_from(polar) ==
    LET rho == polar.rho
        theta == polar.theta
        sector == polar.sector
    IN  CASE sector.tag = "Right" ->
                 new(T_mul(rho, T_cosh(theta)), T_mul(rho, T_sinh(theta)))
          [] sector.tag = "Up" ->
                 new(T_mul(rho, T_sinh(theta)), T_mul(rho, T_cosh(theta)))
          [] sector.tag = "Left" ->
                 new(T_mul(T_neg(rho), T_cosh(theta)),
                     T_mul(T_neg(rho), T_sinh(theta)))
          [] sector.tag = "Down" ->
                 new(T_mul(T_neg(rho), T_sinh(theta)),
                     T_mul(T_neg(rho), T_cosh(theta)))
          [] sector.tag = "Diagonal" ->
                 IF T_eq(theta, T_infinity) THEN new(sector.t, sector.t)
                 ELSE new(sector.t, T_neg(sector.t))

\* the outcome of a call that panicked
Panic == [panic |-> TRUE]

\* Pow<u32> for HyperbolicPolar.  `n - 1` overflows for n = i32::MIN: a
\* panic with overflow checks (debug builds), wrapped without (release).
HyperbolicPolar_pow(self, exp, overflow_checks) ==
    IF exp = 0 THEN HyperbolicPolar_default
    ELSE IF exp = 1 THEN self
    ELSE LET i == as_i32(exp)
             rho == self.rho
             theta == self.theta
             sector == self.sector
         IN  IF sector.tag = "Diagonal"
             THEN IF i = i32_MIN /\ overflow_checks THEN Panic
                  ELSE LET t == sector.t
                           t_new == T_mul(t, T_powi(T_add(t, t),
                                                    i32_wrapping_sub(i, 1)))
                       IN  [rho |-> rho, theta |-> theta,
                            sector |-> Diagonal(t_new)]
             ELSE LET new_sector == IF i32_rem(i, 2) = 0 THEN Right
                                    ELSE sector
                  IN  [rho |-> T_powi(rho, i),
                       theta |-> T_mul(T_from(i), theta),
                       sector |-> new_sector]

\* klein with the Up sector for every space-like number
klein_up_only(z) ==
    LET t == z.t
        x == z.x
        t_abs == T_abs(t)
        x_abs == T_abs(x)
    IN  IF T_eq(t_abs, x_abs) THEN None
        ELSE IF T_gt(t_abs, x_abs)
             THEN (IF T_gt(t, T_zero) THEN Some(one) ELSE Some(neg(one)))
        ELSE Some(h)

\* a Klein index that is one in the Left sector as well
klein_one_for_left(z) ==
    LET t == z.t
        x == z.x
        t_abs == T_abs(t)
        x_abs == T_abs(x)
    IN  IF T_eq(t_abs, x_abs) THEN None
        ELSE IF T_gt(t_abs, x_abs) THEN Some(one)
        ELSE IF T_gt(x, T_zero) THEN Some(h)
        ELSE Some(neg(h))

klein(z) ==
    LET t == z.t
        x == z.x
        t_abs == T_abs(t)
        x_abs == T_abs(x)
    IN  IF T_eq(t_abs, x_abs) THEN None
        ELSE IF T_gt(t_abs, x_abs)
             THEN (IF T_gt(t, T_zero) THEN Some(one) ELSE Some(neg(one)))
        ELSE IF T_gt(x, T_zero) THEN Some(h)
        ELSE Some(neg(h))

sector(z) == HyperbolicSector_from(z)

polar(z) == HyperbolicPolar_from(z)

(***************************************************************************)
(* Exponential, logarithm and square root.                                 *)
(***************************************************************************)
\* Option::unwrap_or
unwrap_or(o, value) == IF o.some THEN o.val ELSE value

\* the exponential of a number kz = {t, x} of the Right sector
exp_right(kz) ==
    LET t == kz.t
        x == kz.x
        t_exp == T_exp(t)
    IN  new(T_mul(t_exp, T_cosh(x)), T_mul(t_exp, T_sinh(x)))

exp(z) ==
    LET k == unwrap_or(klein(z), one)
    IN  mul(k, exp_right(mul(k, z)))

\* the logarithm of a number kz = {t, x} of the Right sector
ln_right(kz) ==
    LET t == kz.t
        x == kz.x
        sd == T_sub(T_mul(t, t), T_mul(x, x))
        two == T_add(T_one, T_one)
        t_new == T_div(T_ln(sd), two)
        x_new == T_atanh(T_div(x, t))
    IN  new(t_new, x_new)

\* ln without the final product with the Klein index
ln_right_sector_only(z) ==
    LET kl == klein(z)
    IN  IF kl.some THEN Some(ln_right(mul(kl.val, z))) ELSE None

ln(z) ==
    LET kl == klein(z)
    IN  IF kl.some THEN Some(mul(kl.val, ln_right(mul(kl.val, z))))
        ELSE None

\* the closure of log that divides the t component only
log_of_t_only(l, divisor) ==
    IF l.some THEN Some(new(T_div(l.val.t, divisor), l.val.x)) ELSE None

\* log that divides the t component only
log_t_only(z, base) == log_of_t_only(ln(z), T_ln(base))

\* Option::map of the closure |z| z / divisor
log_of(l, divisor) == IF l.some THEN Some(div_T(l.val, divisor)) ELSE None

log(z, base) == log_of(ln(z), T_ln(base))

\* sqrt with `>` for `>=`
sqrt_open_cone(z) ==
    LET t_x_add == T_add(z.t, z.x)
        t_x_sub == T_sub(z.t, z.x)
    IN  IF T_gt(t_x_add, T_zero) /\ T_gt(t_x_sub, T_zero)
        THEN LET sqrt_add == T_sqrt(t_x_add)
                 sqrt_sub == T_sqrt(t_x_sub)
                 two == T_add(T_one, T_one)
                 t == T_div(T_add(sqrt_add, sqrt_sub), two)
                 x == T_div(T_sub(sqrt_add, sqrt_sub), two)
             IN  Some(new(t, x))
        ELSE None

sqrt(z) ==
    LET t_x_add == T_add(z.t, z.x)
        t_x_sub == T_sub(z.t, z.x)
    IN  IF T_ge(t_x_add, T_zero) /\ T_ge(t_x_sub, T_zero)
        THEN LET sqrt_add == T_sqrt(t_x_add)
                 sqrt_sub == T_sqrt(t_x_sub)
                 two == T_add(T_one, T_one)
                 t == T_div(T_add(sqrt_add, sqrt_sub), two)
                 x == T_div(T_sub(sqrt_add, sqrt_sub), two)
             IN  Some(new(t, x))
        ELSE None

(***************************************************************************)
(* Circular and hyperbolic functions.  A circular angle (n/d)*pi with d in *)
(* {1, 2, 4} is kept symbolically; its sine and cosine are 0, +-1 and      *)
(* +-sqrt(2)/2.                                                            *)
(***************************************************************************)
PiTimes(num, den) ==
    IF num = 0 THEN T_zero ELSE [Q(num, den) EXCEPT !.k = "pi"]

\* the angle in quarters of pi, reduced to one turn
QuarterTurns(v) == (v.n * (4 \div v.d)) % 8

\* sin(m * pi / 4) for m = 0..7, at index m + 1
SinOfQuarterTurns ==
    << T_zero, Alg(1, 2, 2), T_one, Alg(1, 2, 2),
       T_zero, Alg(0 - 1, 2, 2), Q(0 - 1, 1), Alg(0 - 1, 2, 2) >>

T_sin(v) ==
    IF v.k = "pi" THEN SinOfQuarterTurns[QuarterTurns(v) + 1]
    ELSE IF v.k # "alg" THEN Unrepresentable
    ELSE IF v.d = 0 THEN T_nan
    ELSE IF v.n = 0 THEN T_zero
    ELSE Unrepresentable

\* cos(q) = sin(q + pi/2)
T_cos(v) ==
    IF v.k = "pi" THEN SinOfQuarterTurns[((QuarterTurns(v) + 2) % 8) + 1]
    ELSE IF v.k # "alg" THEN Unrepresentable
    ELSE IF v.d = 0 THEN T_nan
    ELSE IF v.n = 0 THEN T_one
    ELSE Unrepresentable

sin(z) == new(T_mul(T_sin(z.t), T_cos(z.x)), T_mul(T_cos(z.t), T_sin(z.x)))

cos(z) == new(T_mul(T_cos(z.t), T_cos(z.x)), T_mul(T_sin(z.t), T_sin(z.x)))

\* cos(self) / sin(self)
tan_inverted(z) == div(cos(z), sin(z))

tan(z) == div(sin(z), cos(z))

sinh(z) ==
    new(T_mul(T_sinh(z.t), T_cosh(z.x)), T_mul(T_cosh(z.t), T_sinh(z.x)))

cosh(z) ==
    new(T_mul(T_cosh(z.t), T_cosh(z.x)), T_mul(T_sinh(z.t), T_sinh(z.x)))

tanh(z) == div(sinh(z), cosh(z))

(***************************************************************************)
(* The matrix form.  Matrix2 is the 2x2 matrix of the linear-algebra       *)
(* library: its constructor takes the components row by row, and its sum,  *)
(* product and determinant are those of 2x2 matrices.                      *)
(***************************************************************************)
real(z) == z.t

hyperbolic(z) == z.x

Matrix2_new(m11, m12, m21, m22) ==
    [m11 |-> m11, m12 |-> m12, m21 |-> m21, m22 |-> m22]

Matrix2_add(m, rhs) ==
    Matrix2_new(T_add(m.m11, rhs.m11), T_add(m.m12, rhs.m12),
                T_add(m.m21, rhs.m21), T_add(m.m22, rhs.m22))

Matrix2_mul(m, rhs) ==
    Matrix2_new(T_add(T_mul(m.m11, rhs.m11), T_mul(m.m12, rhs.m21)),
                T_add(T_mul(m.m11, rhs.m12), T_mul(m.m12, rhs.m22)),
                T_add(T_mul(m.m21, rhs.m11), T_mul(m.m22, rhs.m21)),
                T_add(T_mul(m.m21, rhs.m12), T_mul(m.m22, rhs.m22)))

Matrix2_determinant(m) == T_sub(T_mul(m.m11, m.m22), T_mul(m.m21, m.m12))

\* Perplex::from(matrix) reading the diagonal: x = m22
Perplex_from_matrix_diagonal(m) == [t |-> m.m11, x |-> m.m22]

\* Perplex::from(matrix)
Perplex_from_matrix(m) == [t |-> m.m11, x |-> m.m12]

\* PerplexMatrixForm::from(z)
PerplexMatrixForm_from(z) == Matrix2_new(z.t, z.x, z.x, z.t)

as_matrix_form(z) ==
    LET t == real(z)
        x == hyperbolic(z)
    IN  Matrix2_new(t, x, x, t)

(***************************************************************************)
(* The calls.  A behaviour is one call of an operation on operands drawn   *)
(* from the bounded sets, possibly followed by a call on its result.       *)
(* a, b, c are the operands as passed, scalar an operand of type T, n the  *)
(* exponent, res the value returned (for an in-place operator: self after  *)
(* the call) and pol the polar form produced by a conversion.              *)
(***************************************************************************)
Coord == {Q(i, 1) : i \in (0 - MaxCoord)..MaxCoord}

Coord3 == {Q(i, 1) : i \in (0 - MaxCoord3)..MaxCoord3}

Operands == {new(t, x) : t \in Coord, x \in Coord}

Operands3 == {new(t, x) : t \in Coord3, x \in Coord3}

\* the scalar operands
Scalars == Coord

\* the operands of ln: those of the grid and the halves around the origin
HalfOperands == {new(Q(i, 2), Q(j, 2)) : i \in {0 - 1, 0, 1}, j \in {0 - 1, 0, 1}}

LnOperands == Operands \cup HalfOperands

\* the bases of log: the integers 1..MaxBase and their reciprocals
Bases == {Q(i, 1) : i \in 1..MaxBase} \cup {Q(1, i) : i \in 1..MaxBase}

Init ==
    /\ op = "idle"
    /\ a = default
    /\ b = default
    /\ c = default
    /\ scalar = T_one
    /\ n = 0
    /\ res = default
    /\ pol = HyperbolicPolar_default

Add ==
    /\ op = "idle"
    /\ \E z \in Operands, w \in Operands :
          /\ a' = z
          /\ b' = w
          /\ res' = add(z, w)
    /\ op' = "add"
    /\ UNCHANGED <<c, n, pol, scalar>>

Mul ==
    /\ op = "idle"
    /\ \E z \in Operands, w \in Operands :
          /\ a' = z
          /\ b' = w
          /\ res' = mul(z, w)
    /\ op' = "mul"
    /\ UNCHANGED <<c, n, pol, scalar>>

Div ==
    /\ op = "idle"
    /\ \E z \in Operands, w \in Operands :
          /\ a' = z
          /\ b' = w
          /\ res' = div(z, w)
    /\ op' = "div"
    /\ UNCHANGED <<c, n, pol, scalar>>

\* a /= b: res is self after the call
DivAssign ==
    /\ op = "idle"
    /\ \E z \in Operands, w \in Operands :
          /\ a' = z
          /\ b' = w
          /\ res' = div_assign(z, w)
    /\ op' = "div_assign"
    /\ UNCHANGED <<c, n, pol, scalar>>

\* (a * b) * w, on the product a call of Mul returned
MulProduct ==
    /\ op = "mul"
    /\ \E w \in Operands3 :
          /\ c' = w
          /\ res' = mul(res, w)
    /\ op' = "mul_mul"
    /\ UNCHANGED <<a, b, n, pol, scalar>>

\* w * (a + b), on the sum a call of Add returned
MulSum ==
    /\ op = "add"
    /\ \E w \in Operands3 :
          /\ c' = w
          /\ res' = mul(w, res)
    /\ op' = "mul_add"
    /\ UNCHANGED <<a, b, n, pol, scalar>>

\* (a * b) / b, on the product a call of Mul returned
DivProduct ==
    /\ op = "mul"
    /\ res' = div(res, b)
    /\ op' = "mul_div"
    /\ UNCHANGED <<a, b, c, n, pol, scalar>>

TryInverse ==
    /\ op = "idle"
    /\ \E z \in Operands :
          /\ a' = z
          /\ res' = try_inverse(z)
    /\ op' = "try_inverse"
    /\ UNCHANGED <<b, c, n, pol, scalar>>

Inv ==
    /\ op = "idle"
    /\ \E z \in Operands :
          /\ a' = z
          /\ res' = inv(z)
    /\ op' = "inv"
    /\ UNCHANGED <<b, c, n, pol, scalar>>

\* is_time_like, is_space_like and is_light_like of one z
Classify ==
    /\ op = "idle"
    /\ \E z \in Operands :
          /\ a' = z
          /\ res' = [time |-> is_time_like(z), space |-> is_space_like(z),
                     light |-> is_light_like(z)]
    /\ op' = "classify"
    /\ UNCHANGED <<b, c, n, pol, scalar>>

Powu ==
    /\ op = "idle"
    /\ \E z \in Operands, e \in 0..MaxExp :
          /\ a' = z
          /\ n' = e
          /\ res' = powu(z, e)
    /\ op' = "powu"
    /\ UNCHANGED <<b, c, pol, scalar>>

Powi ==
    /\ op = "idle"
    /\ \E z \in Operands, e \in i32_MIN..i32_MAX :
          /\ a' = z
          /\ n' = e
          /\ res' = powi(z, e)
    /\ op' = "powi"
    /\ UNCHANGED <<b, c, pol, scalar>>

\* HyperbolicPolar::from(z)
ToPolar ==
    /\ op = "idle"
    /\ \E z \in Operands :
          /\ a' = z
          /\ pol' = HyperbolicPolar_from(z)
    /\ op' = "polar"
    /\ UNCHANGED <<b, c, n, res, scalar>>

\* Perplex::from(polar), on the polar form a conversion returned
FromPolar ==
    /\ op = "polar"
    /\ res' = Perplex_from(pol)
    /\ op' = "from_polar"
    /\ UNCHANGED <<a, b, c, n, pol, scalar>>

\* polar.pow(e), on the polar form a conversion returned, in a build with
\* or without overflow checks
PolarPow ==
    /\ op = "polar"
    /\ \E e \in 0..MaxExp, overflow_checks \in BOOLEAN :
          /\ n' = e
          /\ res' = HyperbolicPolar_pow(pol, e, overflow_checks)
    /\ op' = "polar_pow"
    /\ UNCHANGED <<a, b, c, pol, scalar>>

\* Perplex::from(power), on the power a call of pow returned
FromPolarPow ==
    /\ op = "polar_pow"
    /\ res # Panic
    /\ res' = Perplex_from(res)
    /\ op' = "from_polar_pow"
    /\ UNCHANGED <<a, b, c, n, pol, scalar>>

Exp ==
    /\ op = "idle"
    /\ \E z \in Operands :
          /\ a' = z
          /\ res' = exp(z)
    /\ op' = "exp"
    /\ UNCHANGED <<b, c, n, pol, scalar>>

\* ln(exp(a)), on the value a call of exp returned
LnExp ==
    /\ op = "exp"
    /\ res' = ln(res)
    /\ op' = "exp_ln"
    /\ UNCHANGED <<a, b, c, n, pol, scalar>>

Ln ==
    /\ op = "idle"
    /\ \E z \in LnOperands :
          /\ a' = z
          /\ res' = ln(z)
    /\ op' = "ln"
    /\ UNCHANGED <<b, c, n, pol, scalar>>

\* ln(a).unwrap().exp(), on the logarithm a call of ln returned
ExpLn ==
    /\ op = "ln"
    /\ res.some
    /\ res' = exp(res.val)
    /\ op' = "ln_exp"
    /\ UNCHANGED <<a, b, c, n, pol, scalar>>

Log ==
    /\ op = "idle"
    /\ \E z \in Operands, base \in Bases :
          /\ a' = z
          /\ scalar' = base
          /\ res' = log(z, base)
    /\ op' = "log"
    /\ UNCHANGED <<b, c, n, pol>>

Sqrt ==
    /\ op = "idle"
    /\ \E z \in Operands :
          /\ a' = z
          /\ res' = sqrt(z)
    /\ op' = "sqrt"
    /\ UNCHANGED <<b, c, n, pol, scalar>>

Klein ==
    /\ op = "idle"
    /\ \E z \in Operands :
          /\ a' = z
          /\ res' = klein(z)
    /\ op' = "klein"
    /\ UNCHANGED <<b, c, n, pol, scalar>>

Sector ==
    /\ op = "idle"
    /\ \E z \in Operands :
          /\ a' = z
          /\ res' = sector(z)
    /\ op' = "sector"
    /\ UNCHANGED <<b, c, n, pol, scalar>>

Arg ==
    /\ op = "idle"
    /\ \E z \in Operands :
          /\ a' = z
          /\ res' = arg(z)
    /\ op' = "arg"
    /\ UNCHANGED <<b, c, n, pol, scalar>>

\* z.polar()
Polar ==
    /\ op = "idle"
    /\ \E z \in Operands :
          /\ a' = z
          /\ res' = polar(z)
    /\ op' = "polar_of"
    /\ UNCHANGED <<b, c, n, pol, scalar>>

\* z + r
AddT ==
    /\ op = "idle"
    /\ \E z \in Operands, r \in Scalars :
          /\ a' = z
          /\ scalar' = r
          /\ res' = add_T(z, r)
    /\ op' = "add_T"
    /\ UNCHANGED <<b, c, n, pol>>

\* z += r: res is self after the call
AddAssignT ==
    /\ op = "idle"
    /\ \E z \in Operands, r \in Scalars :
          /\ a' = z
          /\ scalar' = r
          /\ res' = add_assign_T(z, r)
    /\ op' = "add_assign_T"
    /\ UNCHANGED <<b, c, n, pol>>

\* z - r
SubT ==
    /\ op = "idle"
    /\ \E z \in Operands, r \in Scalars :
          /\ a' = z
          /\ scalar' = r
          /\ res' = sub_T(z, r)
    /\ op' = "sub_T"
    /\ UNCHANGED <<b, c, n, pol>>

\* z -= r
SubAssignT ==
    /\ op = "idle"
    /\ \E z \in Operands, r \in Scalars :
          /\ a' = z
          /\ scalar' = r
          /\ res' = sub_assign_T(z, r)
    /\ op' = "sub_assign_T"
    /\ UNCHANGED <<b, c, n, pol>>

\* z * r
MulT ==
    /\ op = "idle"
    /\ \E z \in Operands, r \in Scalars :
          /\ a' = z
          /\ scalar' = r
          /\ res' = mul_T(z, r)
    /\ op' = "mul_T"
    /\ UNCHANGED <<b, c, n, pol>>

\* z *= r
MulAssignT ==
    /\ op = "idle"
    /\ \E z \in Operands, r \in Scalars :
          /\ a' = z
          /\ scalar' = r
          /\ res' = mul_assign_T(z, r)
    /\ op' = "mul_assign_T"
    /\ UNCHANGED <<b, c, n, pol>>

\* z / r
DivT ==
    /\ op = "idle"
    /\ \E z \in Operands, r \in Scalars :
          /\ a' = z
          /\ scalar' = r
          /\ res' = div_T(z, r)
    /\ op' = "div_T"
    /\ UNCHANGED <<b, c, n, pol>>

\* z /= r
DivAssignT ==
    /\ op = "idle"
    /\ \E z \in Operands, r \in Scalars :
          /\ a' = z
          /\ scalar' = r
          /\ res' = div_assign_T(z, r)
    /\ op' = "div_assign_T"
    /\ UNCHANGED <<b, c, n, pol>>

Sub ==
    /\ op = "idle"
    /\ \E z \in Operands, w \in Operands :
          /\ a' = z
          /\ b' = w
          /\ res' = sub(z, w)
    /\ op' = "sub"
    /\ UNCHANGED <<c, n, pol, scalar>>

\* a += b: res is self after the call
AddAssign ==
    /\ op = "idle"
    /\ \E z \in Operands, w \in Operands :
          /\ a' = z
          /\ b' = w
          /\ res' = add_assign(z, w)
    /\ op' = "add_assign"
    /\ UNCHANGED <<c, n, pol, scalar>>

\* a -= b
SubAssign ==
    /\ op = "idle"
    /\ \E z \in Operands, w \in Operands :
          /\ a' = z
          /\ b' = w
          /\ res' = sub_assign(z, w)
    /\ op' = "sub_assign"
    /\ UNCHANGED <<c, n, pol, scalar>>

\* a *= b
MulAssign ==
    /\ op = "idle"
    /\ \E z \in Operands, w \in Operands :
          /\ a' = z
          /\ b' = w
          /\ res' = mul_assign(z, w)
    /\ op' = "mul_assign"
    /\ UNCHANGED <<c, n, pol, scalar>>

\* a.mul_add(b, c)
MulAdd ==
    /\ op = "idle"
    /\ \E z \in Operands3, w \in Operands3, v \in Operands3 :
          /\ a' = z
          /\ b' = w
          /\ c' = v
          /\ res' = mul_add(z, w, v)
    /\ op' = "fused"
    /\ UNCHANGED <<n, pol, scalar>>

\* a.mul_add_assign(b, c): res is self after the call
MulAddAssign ==
    /\ op = "idle"
    /\ \E z \in Operands3, w \in Operands3, v \in Operands3 :
          /\ a' = z
          /\ b' = w
          /\ c' = v
          /\ res' = mul_add_assign(z, w, v)
    /\ op' = "fused_assign"
    /\ UNCHANGED <<n, pol, scalar>>

Matrix2_identity == Matrix2_new(T_one, T_zero, T_zero, T_one)

\* the inverse without the sign change off the diagonal
Matrix2_try_inverse_no_neg(m) ==
    LET determinant == Matrix2_determinant(m)
    IN  IF T_eq(determinant, T_zero) THEN None
        ELSE Some(Matrix2_new(T_div(m.m22, determinant),
                              T_div(m.m12, determinant),
                              T_div(m.m21, determinant),
                              T_div(m.m11, determinant)))

\* Matrix2::try_inverse: None for a zero determinant, else the adjugate
\* divided by the determinant
Matrix2_try_inverse(m) ==
    LET determinant == Matrix2_determinant(m)
    IN  IF T_eq(determinant, T_zero) THEN None
        ELSE Some(Matrix2_new(T_div(m.m22, determinant),
                              T_div(T_neg(m.m12), determinant),
                              T_div(T_neg(m.m21), determinant),
                              T_div(m.m11, determinant)))

\* Matrix2::pow: the power of m, the identity for the exponent 0
RECURSIVE Matrix2_pow(_, _)
Matrix2_pow(m, exponent) ==
    IF exponent = 0 THEN Matrix2_identity
    ELSE Matrix2_mul(Matrix2_pow(m, exponent - 1), m)

\* Pow<u32> for &Perplex, through the matrix form
matrix_pow_u32(self, exponent) ==
    IF exponent = 0 THEN one
    ELSE IF exponent = 1 THEN self
    ELSE IF exponent = 2 THEN mul(self, self)
    ELSE LET m == PerplexMatrixForm_from(self)
         IN  Perplex_from_matrix(Matrix2_pow(m, exponent))

\* Pow<i32> for &Perplex, through the matrix form
matrix_pow_i32(self, exponent) ==
    IF exponent < 0
    THEN LET inverse == Matrix2_try_inverse(PerplexMatrixForm_from(self))
         IN  IF inverse.some
             THEN Some(Perplex_from_matrix(
                          Matrix2_pow(inverse.val, as_u32(wrapping_neg(exponent)))))
             ELSE None
    ELSE Some(matrix_pow_u32(self, as_u32(exponent)))

matrix_powu(self, exponent) == matrix_pow_u32(self, exponent)

matrix_powi(self, exponent) == matrix_pow_i32(self, exponent)

\* z.as_matrix_form()
AsMatrixForm ==
    /\ op = "idle"
    /\ \E z \in Operands :
          /\ a' = z
          /\ res' = as_matrix_form(z)
    /\ op' = "matrix"
    /\ UNCHANGED <<b, c, n, pol, scalar>>

\* Perplex::from(m), on the matrix form a conversion returned
FromMatrix ==
    /\ op = "matrix"
    /\ res' = Perplex_from_matrix(res)
    /\ op' = "from_matrix"
    /\ UNCHANGED <<a, b, c, n, pol, scalar>>

\* Perplex::from(m1 + m2) for m1 = z1.as_matrix_form() and
\* m2 = PerplexMatrixForm::from(z2)
MatrixAdd ==
    /\ op = "idle"
    /\ \E z \in Operands, w \in Operands :
          /\ a' = z
          /\ b' = w
          /\ res' = Perplex_from_matrix(
                       Matrix2_add(as_matrix_form(z), PerplexMatrixForm_from(w)))
    /\ op' = "matrix_add"
    /\ UNCHANGED <<c, n, pol, scalar>>

\* Perplex::from(m1 * m2)
MatrixMul ==
    /\ op = "idle"
    /\ \E z \in Operands, w \in Operands :
          /\ a' = z
          /\ b' = w
          /\ res' = Perplex_from_matrix(
                       Matrix2_mul(as_matrix_form(z), PerplexMatrixForm_from(w)))
    /\ op' = "matrix_mul"
    /\ UNCHANGED <<c, n, pol, scalar>>

\* m1.determinant()
Determinant ==
    /\ op = "idle"
    /\ \E z \in Operands :
          /\ a' = z
          /\ res' = Matrix2_determinant(as_matrix_form(z))
    /\ op' = "determinant"
    /\ UNCHANGED <<b, c, n, pol, scalar>>

\* z.powu(e) of the matrix-form implementation
MatrixPowu ==
    /\ op = "idle"
    /\ \E z \in Operands, e \in 0..MaxExp :
          /\ a' = z
          /\ n' = e
          /\ res' = matrix_powu(z, e)
    /\ op' = "matrix_powu"
    /\ UNCHANGED <<b, c, pol, scalar>>

\* z.powi(e) of the matrix-form implementation
MatrixPowi ==
    /\ op = "idle"
    /\ \E z \in Operands, e \in i32_MIN..i32_MAX :
          /\ a' = z
          /\ n' = e
          /\ res' = matrix_powi(z, e)
    /\ op' = "matrix_powi"
    /\ UNCHANGED <<b, c, pol, scalar>>

\* the circular operands: the multiples of pi/4 up to MaxQuarter quarters
CircularCoord == {PiTimes(i, 4) : i \in (0 - MaxQuarter)..MaxQuarter}

CircularOperands == {new(t, x) : t \in CircularCoord, x \in CircularCoord}

\* the hyperbolic operands: 0, the angles atanh(u) and +-infinity
TanhValues ==
    {Q(0, 1), Q(1, 2), Q(0 - 1, 2), Q(3, 5), Q(0 - 3, 5), Q(4, 5),
     Q(0 - 4, 5), Q(1, 1), Q(0 - 1, 1)}

HyperbolicCoord == {T_atanh(u) : u \in TanhValues}

HyperbolicOperands == {new(t, x) : t \in HyperbolicCoord, x \in HyperbolicCoord}

Tan ==
    /\ op = "idle"
    /\ \E z \in CircularOperands :
          /\ a' = z
          /\ res' = tan(z)
    /\ op' = "tan"
    /\ UNCHANGED <<b, c, n, pol, scalar>>

Tanh ==
    /\ op = "idle"
    /\ \E z \in HyperbolicOperands :
          /\ a' = z
          /\ res' = tanh(z)
    /\ op' = "tanh"
    /\ UNCHANGED <<b, c, n, pol, scalar>>

\* the six norms of one operand
Norms ==
    /\ op = "idle"
    /\ \E z \in Operands :
          /\ a' = z
          /\ res' = [modulus |-> modulus(z), norm |-> norm(z),
                     magnitude |-> magnitude(z), l1_norm |-> l1_norm(z),
                     l2_norm |-> l2_norm(z), max_norm |-> max_norm(z)]
    /\ op' = "norms"
    /\ UNCHANGED <<b, c, n, pol, scalar>>

\* z.powu(e) for e >= 1 is entered: past the `exp == 0` test
PowEnter ==
    /\ op = "idle"
    /\ \E z \in Operands, e \in 1..MaxExp :
          /\ a' = z
          /\ n' = e
          /\ res' = pow_enter(z, e)
    /\ op' = "pow_loop"
    /\ UNCHANGED <<b, c, pol, scalar>>

\* the loop test holds: one pass through the body
PowLoop ==
    /\ op = "pow_loop"
    /\ res.exp > 1
    /\ res' = pow_loop_body(res)
    /\ UNCHANGED <<op, a, b, c, n, pol, scalar>>

\* the loop test fails: the call returns result * base
PowReturn ==
    /\ op = "pow_loop"
    /\ ~(res.exp > 1)
    /\ res' = pow_return(res)
    /\ op' = "pow_done"
    /\ UNCHANGED <<a, b, c, n, pol, scalar>>

\* k * self for the Klein index k of self, as exp and ln form it
KleinTimes ==
    /\ op = "klein"
    /\ res.some
    /\ res' = mul(res.val, a)
    /\ op' = "klein_times"
    /\ UNCHANGED <<a, b, c, n, pol, scalar>>

Next ==
    \/ Add
    \/ Mul
    \/ Div
    \/ DivAssign
    \/ MulProduct
    \/ MulSum
    \/ DivProduct
    \/ TryInverse
    \/ Inv
    \/ Classify
    \/ Powu
    \/ Powi
    \/ ToPolar
    \/ FromPolar
    \/ PolarPow
    \/ FromPolarPow
    \/ Exp
    \/ LnExp
    \/ Ln
    \/ ExpLn
    \/ Log
    \/ Sqrt
    \/ Klein
    \/ Sector
    \/ Arg
    \/ Polar
    \/ AddT
    \/ AddAssignT
    \/ SubT
    \/ SubAssignT
    \/ MulT
    \/ MulAssignT
    \/ DivT
    \/ DivAssignT
    \/ Sub
    \/ AddAssign
    \/ SubAssign
    \/ MulAssign
    \/ MulAdd
    \/ MulAddAssign
    \/ AsMatrixForm
    \/ FromMatrix
    \/ MatrixAdd
    \/ MatrixMul
    \/ Determinant
    \/ MatrixPowu
    \/ MatrixPowi
    \/ Tan
    \/ Tanh
    \/ Norms
    \/ PowEnter
    \/ PowLoop
    \/ PowReturn
    \/ KleinTimes

Spec == Init /\ [][Next]_vars

\* a call that was entered runs on: the loop and the return are not
\* suspended
FairSpec == Spec /\ WF_vars(PowLoop) /\ WF_vars(PowReturn)

(***************************************************************************)
(* Reference notions the properties are stated with.  The operands are     *)
(* integer pairs, so t*t - x*x is computed on the integers, apart from     *)
(* the operators of the model.                                             *)
(***************************************************************************)
P(i, j) == new(Q(i, 1), Q(j, 1))

\* t*t - x*x of an operand with integer components
D(z) == z.t.n * z.t.n - z.x.n * z.x.n

\* z * z * ... * z with k factors, multiplied from the left
RECURSIVE RepeatedProduct(_, _)
RepeatedProduct(z, k) ==
    IF k = 0 THEN one
    ELSE IF k = 1 THEN z
    ELSE mul(RepeatedProduct(z, k - 1), z)

(***************************************************************************)
(* Division.                                                               *)
(***************************************************************************)
\* C1: a / b is None exactly when t*t - x*x of the divisor b is zero, and
\* otherwise Some(a * try_inverse(b)).
C1_DivNoneIffLightLike ==
    op = "div" =>
        /\ (res = None) <=> (D(b) = 0)
        /\ D(b) # 0 => res = Some(mul(a, try_inverse(b).val))

\* a quotient with a fractional component was returned
C1_Witness ==
    /\ op = "div"
    /\ D(b) = 3
    /\ res.some
    /\ res.val.t.d = 3

\* C2 (as claimed): a /= d with a light-like d leaves both components of
\* self NaN, whatever the dividend.
C2_DivAssignLightLikeGivesNaN ==
    (op = "div_assign" /\ D(b) = 0) => (is_nan(res.t) /\ is_nan(res.x))

\* C3: for b not light-like, (a * b) / b is Some(a).
C3_DivUndoesMul ==
    (op = "mul_div" /\ D(b) # 0) => res = Some(a)

\* a product by a space-like factor was divided by it again
C3_Witness ==
    /\ op = "mul_div"
    /\ D(b) < 0
    /\ D(a) = 0
    /\ a # zero
    /\ res = Some(a)

\* C4: try_inverse(z) and inv(z) are None exactly when z is light-like, and
\* otherwise Some((t/D, -x/D)), whose product with z is (1, 0).
C4_InverseIsConjOverD ==
    op \in {"try_inverse", "inv"} =>
        /\ (res = None) <=> (D(a) = 0)
        /\ D(a) # 0 =>
              /\ res = Some(new(Q(IntSgn(D(a)) * a.t.n, IntAbs(D(a))),
                                Q(0 - IntSgn(D(a)) * a.x.n, IntAbs(D(a)))))
              /\ mul(a, res.val) = one

\* the inverse of 2 - h is 2/3 + h/3
C4_Witness ==
    /\ op = "inv"
    /\ a = P(2, 0 - 1)
    /\ res = Some(new(Q(2, 3), Q(1, 3)))

(***************************************************************************)
(* Classification.                                                         *)
(***************************************************************************)
\* C5: exactly one of is_time_like, is_space_like, is_light_like holds, by
\* the sign of t*t - x*x.
C5_ExactlyOneClass ==
    op = "classify" =>
        /\ res.time <=> (D(a) > 0)
        /\ res.space <=> (D(a) < 0)
        /\ res.light <=> (D(a) = 0)
        /\ Cardinality({f \in {"time", "space", "light"} : res[f]}) = 1

\* a space-like number was classified
C5_Witness ==
    /\ op = "classify"
    /\ res.space
    /\ ~res.time
    /\ ~res.light

(***************************************************************************)
(* Multiplication.                                                         *)
(***************************************************************************)
\* C6: a * b is (t1*t2 + x1*x2, t1*x2 + t2*x1); h*h = (1,0), z*one = z,
\* z*zero = zero, and one is the Default value.
C6_MulFormula ==
    op = "mul" =>
        /\ res = P(a.t.n * b.t.n + a.x.n * b.x.n,
                   a.t.n * b.x.n + b.t.n * a.x.n)
        /\ (a = h /\ b = h) => res = P(1, 0)
        /\ b = one => res = a
        /\ b = zero => res = zero
        /\ one = P(1, 0)
        /\ default = one

\* (1 + 2h) * (-1 + 2h) = 3
C6_Witness ==
    /\ op = "mul"
    /\ a = P(1, 2)
    /\ b = P(0 - 1, 2)
    /\ res = P(3, 0)

\* C7: multiplication is commutative and associative and distributes over
\* addition.
C7_MulRingLaws ==
    /\ op = "mul" => res = mul(b, a)
    /\ op = "mul_mul" => res = mul(a, mul(b, c))
    /\ op = "mul_add" => res = add(mul(c, a), mul(c, b))

\* a product of three factors, none of them trivial, was formed
C7_Witness ==
    /\ op = "mul_mul"
    /\ a = P(1, 2)
    /\ b = P(2, 0 - 1)
    /\ c = P(0 - 1, 1)
    /\ res = mul(P(0, 3), c)

(***************************************************************************)
(* Integer powers.                                                         *)
(***************************************************************************)
\* C8: powu(z, n) is the n-fold repeated product of z, for light-like z
\* too, and powu(z, 0) is (1, 0).
C8_PowuIsRepeatedProduct ==
    op = "powu" =>
        /\ res = RepeatedProduct(a, n)
        /\ n = 0 => res = P(1, 0)

\* a light-like number was raised to an exponent with mixed bits
C8_Witness ==
    /\ op = "powu"
    /\ n = 5
    /\ a = P(1, 0 - 1)
    /\ res = P(16, 0 - 16)

\* C9: powi(z, n) is None exactly when n < 0 and z is light-like;
\* Some(powu(z, n)) for n >= 0; Some(powu(inverse(z), |n|)) for n < 0 and
\* z invertible, the most negative exponent included.
C9_PowiByInverse ==
    op = "powi" =>
        /\ (res = None) <=> (n < 0 /\ D(a) = 0)
        /\ n >= 0 => res = Some(powu(a, n))
        /\ (n < 0 /\ D(a) # 0) =>
              res = Some(powu(try_inverse(a).val, IntAbs(n)))

\* an invertible number was raised to the most negative exponent
C9_Witness ==
    /\ op = "powi"
    /\ n = i32_MIN
    /\ D(a) = 3
    /\ res.some
    /\ res.val = RepeatedProduct(try_inverse(a).val, 0 - i32_MIN)

(***************************************************************************)
(* The polar round trip.                                                   *)
(***************************************************************************)
\* C10: Perplex::from(HyperbolicPolar::from(z)) is z, in each of the four
\* sectors and on both diagonals, the origin included.
C10_PolarRoundTrip ==
    op = "from_polar" => perplex_eq(res, a)

\* a number of the Left sector with an irrational modulus went round
C10_Witness ==
    /\ op = "from_polar"
    /\ pol.sector = Left
    /\ pol.rho = T_sqrt(Q(3, 1))
    /\ res = a

(***************************************************************************)
(* Powers in the polar form.                                               *)
(***************************************************************************)
\* C11 (as claimed): for every z and every unsigned exponent n,
\* Perplex::from(HyperbolicPolar::from(z).pow(n)) is the n-fold repeated
\* product of z, and powu(z, n).
C11_PolarPowIsRepeatedProduct ==
    /\ op = "polar_pow" => res # Panic
    /\ op = "from_polar_pow" =>
          /\ perplex_eq(res, RepeatedProduct(a, n))
          /\ perplex_eq(res, powu(a, n))

\* C12 (as claimed): pow(0) is (rho = 1, theta = 0, Right) and pow(1) the
\* input; for n >= 2 the power has rho^n, theta * n and the sector Right
\* for even n and the input's sector for odd n, or, on Diagonal(t), the
\* input's rho and theta and the sector Diagonal(t * (2t)^(n-1)).
C12_PolarPowStructure ==
    op = "polar_pow" =>
        /\ res # Panic
        /\ n = 0 => res = [rho |-> T_one, theta |-> T_zero, sector |-> Right]
        /\ n = 1 => res = pol
        /\ (n >= 2 /\ pol.sector.tag # "Diagonal") =>
              /\ res.rho = T_powu(pol.rho, n)
              /\ res.theta = T_mul(Q(n, 1), pol.theta)
              /\ res.sector = IF n % 2 = 0 THEN Right ELSE pol.sector
        /\ (n >= 2 /\ pol.sector.tag = "Diagonal") =>
              /\ res.rho = pol.rho
              /\ res.theta = pol.theta
              /\ res.sector =
                    Diagonal(T_mul(pol.sector.t,
                                   T_powu(Q(2 * pol.sector.t.n, 1), n - 1)))

(***************************************************************************)
(* Exponential, logarithm and square root.                                 *)
(***************************************************************************)
\* C13 (as claimed): for every time-like or space-like z, ln(z) is Some(w)
\* and exp(w) is z.
C13_ExpInvertsLn ==
    /\ (op = "ln" /\ ~is_light_like(a)) => res.some
    /\ (op = "ln_exp" /\ ~is_light_like(a)) => perplex_eq(res, a)

\* C14: for every time-like or space-like z, exp(z) is not light-like and
\* ln(exp(z)) is Some(z).
C14_LnInvertsExp ==
    /\ (op = "exp" /\ ~is_light_like(a)) => ~is_light_like(res)
    /\ (op = "exp_ln" /\ ~is_light_like(a)) => res = Some(a)

\* the exponential of a number of the Down sector was taken back by ln
C14_Witness ==
    /\ op = "exp_ln"
    /\ a = P(1, 0 - 2)
    /\ res = Some(a)

\* C15: ln(z) is None exactly when z is light-like; log(z, base) is None
\* exactly when ln(z) is, and otherwise ln(z) with both components divided
\* by ln(base).
C15_LnNoneIffLightLike ==
    /\ op = "ln" => ((res = None) <=> is_light_like(a))
    /\ op = "log" =>
          /\ (res = None) <=> (ln(a) = None)
          /\ res.some =>
                res.val = new(T_div(ln(a).val.t, T_ln(scalar)),
                              T_div(ln(a).val.x, T_ln(scalar)))

\* the logarithm of 2 + h to the base 2 has both components
\* atanh(1/2) / ln(2), and ln(2) is atanh(3/5)
C15_Witness ==
    /\ op = "log"
    /\ a = P(2, 1)
    /\ scalar = Q(2, 1)
    /\ res.some
    /\ res.val.t = [k |-> "quot", p |-> T_atanh(Q(1, 2)), q |-> T_atanh(Q(3, 5))]
    /\ res.val.x = res.val.t

C16_KleinBySector ==
    op = "klein" =>
        LET t == a.t.n
            x == a.x.n
        IN  /\ IntAbs(t) = IntAbs(x) => res = None
            /\ (IntAbs(t) > IntAbs(x) /\ t > 0) => res = Some(P(1, 0))
            /\ (IntAbs(t) > IntAbs(x) /\ t < 0) => res = Some(P(0 - 1, 0))
            /\ (IntAbs(x) > IntAbs(t) /\ x > 0) => res = Some(P(0, 1))
            /\ (IntAbs(x) > IntAbs(t) /\ x < 0) => res = Some(P(0, 0 - 1))
            /\ res \in {None, Some(P(1, 0)), Some(P(0 - 1, 0)), Some(P(0, 1)),
                        Some(P(0, 0 - 1))}

\* the Klein index of a number of the Down sector was taken
C16_Witness ==
    /\ op = "klein"
    /\ a = P(1, 0 - 2)
    /\ res = Some(P(0, 0 - 1))

\* C17: sector(z) is Right, Left, Up or Down by the larger component and
\* its sign, and Diagonal(t) with z's own t when |t| = |x|.
C17_SectorByComponents ==
    op = "sector" =>
        LET t == a.t.n
            x == a.x.n
        IN  /\ (IntAbs(t) > IntAbs(x) /\ t > 0) => res = Right
            /\ (IntAbs(t) > IntAbs(x) /\ t < 0) => res = Left
            /\ (IntAbs(x) > IntAbs(t) /\ x > 0) => res = Up
            /\ (IntAbs(x) > IntAbs(t) /\ x < 0) => res = Down
            /\ IntAbs(t) = IntAbs(x) => res = Diagonal(a.t)

\* the sector of a number on the line x = -t was taken
C17_Witness ==
    /\ op = "sector"
    /\ a = P(2, 0 - 2)
    /\ res = Diagonal(Q(2, 1))

\* C18: for light-like z, arg(z) is +infinity on x = t and -infinity on
\* x = -t, and the polar form is {rho: 0, theta: arg(z), sector:
\* Diagonal(t)}; otherwise arg(z) is atanh(x/t) for |t| > |x| and atanh(t/x)
\* for |x| > |t|, the atanh of a number of absolute value below 1.
C18_ArgByCase ==
    LET t == a.t.n
        x == a.x.n
    IN  /\ op = "arg" =>
              /\ x = t => res = T_infinity
              /\ (x = 0 - t /\ x # t) => res = T_neg_infinity
              /\ IntAbs(t) > IntAbs(x) =>
                    /\ res = T_atanh(Q(IntSgn(t) * x, IntAbs(t)))
                    /\ IntAbs(res.n) < res.d
              /\ IntAbs(x) > IntAbs(t) =>
                    /\ res = T_atanh(Q(IntSgn(x) * t, IntAbs(x)))
                    /\ IntAbs(res.n) < res.d
        /\ (op \in {"polar", "polar_of"} /\ IntAbs(t) = IntAbs(x)) =>
              LET p == IF op = "polar" THEN pol ELSE res
              IN  p = [rho |-> T_zero, theta |-> arg(a),
                       sector |-> Diagonal(a.t)]

\* the argument of a space-like number was taken
C18_Witness ==
    /\ op = "arg"
    /\ a = P(0 - 1, 2)
    /\ res = [k |-> "atanh", n |-> 0 - 1, d |-> 2, r |-> 1]

(***************************************************************************)
(* Operations with a scalar.                                               *)
(***************************************************************************)
\* C20: z + r and z - r (and += and -=) change the t component only;
\* z * r and z / r (and *= and /=) multiply or divide both components by r
\* (a division by zero gives the IEEE quotient: an infinity, or NaN for 0/0).
C20_ScalarOps ==
    LET t == a.t.n
        x == a.x.n
        r == scalar.n
    IN  /\ op \in {"add_T", "add_assign_T"} => res = P(t + r, x)
        /\ op \in {"sub_T", "sub_assign_T"} => res = P(t - r, x)
        /\ op \in {"mul_T", "mul_assign_T"} => res = P(t * r, x * r)
        /\ op \in {"div_T", "div_assign_T"} =>
              LET sgn == IF r < 0 THEN 0 - 1 ELSE 1
              IN  res = new(Q(sgn * t, IntAbs(r)), Q(sgn * x, IntAbs(r)))

\* both components of a number were divided by a negative scalar
C20_Witness ==
    /\ op = "div_assign_T"
    /\ a = P(1, 0 - 1)
    /\ scalar = Q(0 - 2, 1)
    /\ res = new(Q(0 - 1, 2), Q(1, 2))

\* C21: each in-place operator leaves self equal to the value of the
\* by-value operator on the same operands: += and +, -= and -, *= and *,
\* mul_add_assign and mul_add, and /= and the unwrapped / for a divisor that
\* is not light-like.
C21_InPlaceEqualsByValue ==
    /\ op = "add_assign" => res = add(a, b)
    /\ op = "sub_assign" => res = sub(a, b)
    /\ op = "mul_assign" => res = mul(a, b)
    /\ op = "fused_assign" => res = mul_add(a, b, c)
    /\ op = "div_assign" /\ ~is_light_like(b) => Some(res) = div(a, b)

\* a *= b changed both components, and the new x is built from the t
\* component of before the call
C21_Witness ==
    /\ op = "mul_assign"
    /\ a = P(1, 2)
    /\ b = P(2, 1)
    /\ res = P(4, 5)

\* C22: the matrix form of z is [[t, x], [x, t]] and the conversion back
\* (t = m11, x = m12) returns z; the number read back from m1 + m2 is
\* z1 + z2, the one read back from m1 * m2 is z1 * z2, and the determinant
\* of the matrix form is squared_distance(z).
C22_MatrixForm ==
    /\ op = "matrix" =>
          res = [m11 |-> a.t, m12 |-> a.x, m21 |-> a.x, m22 |-> a.t]
    /\ op = "from_matrix" => res = a
    /\ op = "matrix_add" => res = add(a, b)
    /\ op = "matrix_mul" => res = mul(a, b)
    /\ op = "determinant" => res = squared_distance(a)

\* the product of two matrix forms was read back as the product
C22_Witness ==
    /\ op = "matrix_mul"
    /\ a = P(1, 2)
    /\ b = P(2, 0 - 1)
    /\ res = P(0, 3)

\* C23: the power computed through the matrix form (one for 0, z for 1,
\* z * z for 2, the n-th matrix power otherwise, the power of the matrix
\* inverse for a negative exponent) is the power the squaring loop computes,
\* for every z and n, and it is None for a negative exponent exactly when
\* the squaring path returns None.
C23_MatrixPowerEqualsSquaring ==
    /\ op = "matrix_powu" => res = powu(a, n)
    /\ op = "matrix_powi" => res = powi(a, n)
    /\ op = "matrix_powi" /\ n < 0 => (res = None <=> powi(a, n) = None)

\* (2, 1)^(-3) through the inverse matrix: (14, -13) / 27
C23_Witness ==
    /\ op = "matrix_powi"
    /\ a = P(2, 1)
    /\ n = 0 - 3
    /\ res = Some(new(Q(14, 27), Q(0 - 13, 27)))

\* C24: tan(z) is None exactly when cos(z) is light-like and otherwise
\* Some(sin(z) * inverse(cos(z))); tanh(z) is None exactly when cosh(z) is
\* light-like and otherwise Some(sinh(z) * inverse(cosh(z))).
C24_TanAndTanh ==
    /\ op = "tan" =>
          res = IF is_light_like(cos(a)) THEN None
                ELSE Some(mul(sin(a), try_inverse(cos(a)).val))
    /\ op = "tanh" =>
          res = IF is_light_like(cosh(a)) THEN None
                ELSE Some(mul(sinh(a), try_inverse(cosh(a)).val))

\* cos((pi/4, pi/4)) = (1/2, 1/2) is light-like and tan returned None
C24_Witness ==
    /\ op = "tan"
    /\ a = new(PiTimes(1, 4), PiTimes(1, 4))
    /\ cos(a) = new(Q(1, 2), Q(1, 2))
    /\ res = None

RECURSIVE FloorLog2(_)
FloorLog2(k) == IF k <= 1 THEN 0 ELSE 1 + FloorLog2(k \div 2)

\* the state of the squaring loop of powu(z, n), n >= 1: result * base^exp
\* is z^n, exp is n halved once per iteration and at least 1, and each
\* iteration made at most two multiplications
C26_LoopState ==
    op = "pow_loop" =>
       /\ mul(res.result, RepeatedProduct(res.base, res.exp))
             = RepeatedProduct(a, n)
       /\ res.exp = n \div (2 ^ res.iterations)
       /\ res.exp >= 1
       /\ res.iterations <= FloorLog2(n)
       /\ res.multiplications <= 2 * res.iterations

\* the state at the return: exp = 1 after exactly floor(log2 n) iterations
\* and at most 2 * floor(log2 n) + 1 multiplications, with z^n as result
C26_Returned ==
    op = "pow_done" =>
       /\ res.exp = 1
       /\ res.iterations = FloorLog2(n)
       /\ res.multiplications <= 2 * FloorLog2(n) + 1
       /\ res.result = RepeatedProduct(a, n)
       /\ res.result = powu(a, n)

\* C26: in the squaring loop of powu(z, n) with n >= 1 every loop state
\* satisfies result * base^exp = z^n; the loop runs exactly floor(log2 n)
\* iterations, halving exp each time, and terminates with exp = 1 after at
\* most 2 * floor(log2 n) + 1 multiplications.
C26_SquaringLoop ==
    /\ [](C26_LoopState /\ C26_Returned)
    /\ (op = "pow_loop") ~> (op = "pow_done")

\* (1, 2)^6 returned after 2 iterations and 4 multiplications
C26_Witness ==
    /\ op = "pow_done"
    /\ a = P(1, 2)
    /\ n = 6
    /\ res.iterations = 2
    /\ res.multiplications = 4
    /\ res.result = powu(a, 6)

\* C27 (as claimed): in HyperbolicPolar::pow the signed n obtained from the
\* u32 exponent by `exp as i32` equals the exponent for every exponent >= 2,
\* those with the top bit set included, so that rho is raised to a
\* non-negative power and theta is multiplied by the exponent itself.
C27_CastKeepsExponent ==
    (op = "polar_pow" /\ n >= 2) =>
        /\ as_i32(n) = n
        /\ as_i32(n) >= 0
        /\ pol.sector.tag # "Diagonal" =>
              /\ res.rho = T_powu(pol.rho, n)
              /\ res.theta = T_mul(T_from(n), pol.theta)

C29_KleinProductInRightSector ==
    /\ op = "klein" => (res.some <=> ~is_light_like(a))
    /\ op = "klein_times" =>
          /\ ~is_light_like(a)
          /\ sector(res) = Right
          /\ T_gt(res.t, T_zero)
          /\ T_gt(res.t, T_abs(res.x))
          /\ T_gt(T_sub(T_mul(res.t, res.t), T_mul(res.x, res.x)), T_zero)
          /\ T_lt(T_abs(T_div(res.x, res.t)), T_one)
    /\ (op = "ln" /\ ~is_light_like(a)) =>
          /\ res.some
          /\ ~IsSpecial(res.val.t)
          /\ ~IsSpecial(res.val.x)

\* -h * (1, -2) = (2, -1), in the Right sector
C29_Witness ==
    /\ op = "klein_times"
    /\ a = P(1, 0 - 2)
    /\ res = P(2, 0 - 1)

\* C30: the squared distance is multiplicative: squared_distance(a * b) =
\* squared_distance(a) * squared_distance(b).  Hence a product is light-like
\* iff at least one factor is, powu(z, n) with n >= 1 is light-like iff z
\* is, and every power of an invertible z is invertible.
C30_SquaredDistanceMultiplicative ==
    /\ op = "mul" =>
          /\ squared_distance(res)
                = T_mul(squared_distance(a), squared_distance(b))
          /\ squared_distance(res) = Q(D(a) * D(b), 1)
          /\ is_light_like(res) <=> (is_light_like(a) \/ is_light_like(b))
    /\ op = "powu" =>
          /\ squared_distance(res) = T_powu(squared_distance(a), n)
          /\ n >= 1 => (is_light_like(res) <=> is_light_like(a))
          /\ ~is_light_like(a) => try_inverse(res).some
    /\ (op = "powi" /\ ~is_light_like(a)) =>
          /\ res.some
          /\ squared_distance(res.val)
                = T_powi(squared_distance(a), n)
          /\ try_inverse(res.val).some

\* (2, 1) * (1, 2) = (4, 5): 3 * (-3) = -9 = 16 - 25
C30_Witness ==
    /\ op = "mul"
    /\ a = P(2, 1)
    /\ b = P(1, 2)
    /\ res = P(4, 5)
    /\ squared_distance(res) = Q(0 - 9, 1)

====
